---- MODULE Spec2Model ----
(***************************************************************************)
(* remark-mermaid: the transformer and its render gateway (the utils part  *)
(* of the source, from `const { series } = require('async')` on) as a      *)
(* state machine.  One action per JavaScript job: the synchronous          *)
(* transformer call, each promise reaction of its `.then` chain, and the   *)
(* completion callback of each asynchronous file-system or child-process   *)
(* operation.  The tree is one parent's child sequence.                    *)
(***************************************************************************)
EXTENDS Integers, Sequences, FiniteSets, TLC

\* Number of children of the root node of the parsed document.
MaxNodes == 2

PLUGIN_NAME == "remark-mermaid"

\* JavaScript's `undefined`, and "no error" in a node-style callback.
Undefined == "undefined"
NoErr == "null"
\* which.sync('mmdc') throws when the executable is not on the search path.
NotFound == "not found: mmdc"

VARIABLES
  doc,            \* the tree as handed to the transformer (never changes)
  ast,            \* root.children, mutated in place by the plugin
  simpleMode,     \* options.simple || false
  vFile,          \* [dirname, data: [destinationDir, asString], messages]
  mmdcExecutable, \* what which.sync('mmdc') finds
  fs,             \* the file system: path -> content
  tasks,          \* per node: the asynchronous operation in flight for it
  promises,       \* per node: its entry in the current phase's `promises`
  phase,          \* how far the transformer's `.then` chain has come
  result,         \* the promise the transformer returned
  execCalls,      \* input files mmdc has been spawned on
  received        \* what the callbacks of direct calls of the utils were given

vars == <<doc, ast, simpleMode, vFile, mmdcExecutable, fs, tasks, promises,
          phase, result, execCalls, received>>

----------------------------------------------------------------------------
(* Tree nodes (mdast).  Every node is a record over the same fields; a     *)
(* field the node kind does not have is Undefined, and `position` is 0 on  *)
(* the nodes the plugin creates (it gives them none).                      *)

CodeNode(lang, value, position) ==
  [type |-> "code", lang |-> lang, value |-> value,
   title |-> Undefined, url |-> Undefined, position |-> position]

UrlNode(type, title, url, position) ==
  [type |-> type, lang |-> Undefined, value |-> Undefined,
   title |-> title, url |-> url, position |-> position]

HtmlNode(value) ==
  [type |-> "html", lang |-> Undefined, value |-> value,
   title |-> Undefined, url |-> Undefined, position |-> 0]

ImageNode(title, url) ==
  [type |-> "image", lang |-> Undefined, value |-> Undefined,
   title |-> title, url |-> url, position |-> 0]

\* The documents the model is run on.
Sources == {"graph TD; A-->B;", "graph LR; C-->D;"}
Urls == {"diagram.mmd", "missing.mmd"}

InputNodes(p) ==
  {CodeNode("mermaid", s, p) : s \in Sources}
    \cup {CodeNode("js", "var a;", p)}
    \cup {UrlNode(t, "mermaid:", u, p) : t \in {"link", "image"}, u \in Urls}
    \cup {UrlNode(t, "Mermaid:", "diagram.mmd", p) : t \in {"link", "image"}}

Documents ==
  {d \in [1..MaxNodes -> UNION {InputNodes(p) : p \in 1..MaxNodes}] :
     \A p \in 1..MaxNodes : d[p].position = p}

----------------------------------------------------------------------------
(* The utils part of the source                                            *)

\* crypto.createHmac('sha1', key).update(data).digest('hex'): taken as
\* collision-free, so modelled by an injective function of key and data.
createHmac(key, data) == "sha1<" \o key \o ">(" \o data \o ")"

\* path.join(dir, name)
join(dir, name) == dir \o "/" \o name

\* What mmdc writes for an input file with the given content.  The renderer
\* is an external program: its write of the output file is taken as atomic.
Svg(content) == "<svg>" \o content \o "</svg>"

getDestinationDir(vf) ==
  IF vf.data.destinationDir # Undefined
    THEN vf.data.destinationDir
    ELSE vf.dirname

createMermaidDiv(contents) ==
  HtmlNode("<div class=\"mermaid\">\n  " \o contents \o "\n</div>")

Idle ==
  [pc |-> "idle", source |-> Undefined, input |-> Undefined,
   svgFilename |-> Undefined, svgPath |-> Undefined, asString |-> FALSE,
   lang |-> Undefined, position |-> 0, callback |-> Undefined,
   argumentsLength |-> 0]

\* Fault seeded in render: the digest is taken over the path of the temporary
\* file's directory and the source rather than over the source alone.
renderTaskHashingPath(node, destination, asString) ==
  LET unique == createHmac(PLUGIN_NAME, join(destination, node.value)) IN
  [pc |-> "outputFile", source |-> node.value,
   input |-> join(destination, unique \o ".mmd"),
   svgFilename |-> unique \o ".svg",
   svgPath |-> join(destination, unique \o ".svg"),
   asString |-> asString, lang |-> node.lang, position |-> node.position,
   callback |-> "codeCallback", argumentsLength |-> 4]

\* The locals of one render(source, destination, asString, callback) call and
\* of the visitor closure that made it; the series starts with fs.outputFile.
renderTask(node, destination, asString) ==
  LET unique == createHmac(PLUGIN_NAME, node.value) IN
  [pc |-> "outputFile", source |-> node.value,
   input |-> join(destination, unique \o ".mmd"),
   svgFilename |-> unique \o ".svg",
   svgPath |-> join(destination, unique \o ".svg"),
   asString |-> asString, lang |-> node.lang, position |-> node.position,
   callback |-> "codeCallback", argumentsLength |-> 4]

\* The locals of one renderFromFile(inputFile, destination, callback) call.
renderFromFileTask(node, inputFile, destination) ==
  LET unique == createHmac(PLUGIN_NAME, inputFile) IN
  [pc |-> "renderFromFile", source |-> Undefined, input |-> inputFile,
   svgFilename |-> unique \o ".svg",
   svgPath |-> join(destination, unique \o ".svg"),
   asString |-> FALSE, lang |-> Undefined, position |-> node.position,
   callback |-> "urlCallback", argumentsLength |-> 3]

----------------------------------------------------------------------------
(* vfile and array helpers                                                 *)

\* vFile.message(reason, position, origin): a warning (fatal: false).
message(vf, reason, position) ==
  [vf EXCEPT !.messages =
     Append(@, [fatal |-> "false", reason |-> reason, position |-> position,
                source |-> PLUGIN_NAME])]

\* vFile.info(reason, position, origin): fatal: null.
info(vf, reason, position) ==
  [vf EXCEPT !.messages =
     Append(@, [fatal |-> "null", reason |-> reason, position |-> position,
                source |-> PLUGIN_NAME])]

\* parent.children.splice(index, 1, newNode)
splice(children, index, newNode) == [children EXCEPT ![index] = newNode]

\* resolve() on a promise: a no-op once the promise is settled.
resolve(p) == IF p = "pending" THEN "resolved" ELSE p
\* reject(err) likewise.
reject(p) == IF p = "pending" THEN "rejected" ELSE p

\* The part of the state the visitors and callbacks work on.
Cur ==
  [ast |-> ast, vFile |-> vFile, tasks |-> tasks, promises |-> promises,
   execCalls |-> execCalls, received |-> received]

Commit(S) ==
  /\ ast' = S.ast
  /\ vFile' = S.vFile
  /\ tasks' = S.tasks
  /\ promises' = S.promises
  /\ execCalls' = S.execCalls
  /\ received' = S.received

\* const promises = [Promise.resolve()]
newPromises(S) == [S EXCEPT !.promises = [i \in DOMAIN S.ast |-> "none"]]

----------------------------------------------------------------------------
(* The plugin part of the source                                           *)

\* The title of the image that replaces a code block.  The source writes
\* backquotes around the word mermaid; a TLA+ string cannot hold one.
MERMAID_IMAGE_TITLE == "'mermaid' image"

\* Fault seeded in isMermaid: the title is compared without regard to case.
isMermaidIgnoringCase(title) == title \in {"mermaid:", "Mermaid:"}

isMermaid(title) == title = "mermaid:"

\* Fault seeded in codeCallback: the two node shapes are exchanged.
codeCallbackSwapped(S, i, err, svg) ==
  LET t == S.tasks[i]
      failed == err # NoErr
      vf1 == IF failed THEN message(S.vFile, err, t.position) ELSE S.vFile
      p1 == IF failed THEN reject(S.promises[i]) ELSE S.promises[i]
      vf2 == info(vf1, t.lang \o " code block replaced with graph", t.position)
      newNode == IF t.asString
                   THEN ImageNode(MERMAID_IMAGE_TITLE, svg)
                   ELSE HtmlNode(svg)
  IN [S EXCEPT !.vFile = vf2,
               !.ast = splice(@, i, newNode),
               !.promises[i] = resolve(p1),
               !.tasks[i] = Idle]

\* Fault seeded in codeCallback: the callback reports against the position
\* of the last node visited instead of its own node's.
codeCallbackLastPosition(S, i, err, svg) ==
  LET t == S.tasks[i]
      last == Len(S.ast)
      failed == err # NoErr
      vf1 == IF failed THEN message(S.vFile, err, last) ELSE S.vFile
      p1 == IF failed THEN reject(S.promises[i]) ELSE S.promises[i]
      vf2 == info(vf1, t.lang \o " code block replaced with graph", last)
      newNode == IF t.asString
                   THEN HtmlNode(svg)
                   ELSE ImageNode(MERMAID_IMAGE_TITLE, svg)
  IN [S EXCEPT !.vFile = vf2,
               !.ast = splice(@, i, newNode),
               !.promises[i] = resolve(p1),
               !.tasks[i] = Idle]

\* The callback visitCodeBlock hands to render.
codeCallback(S, i, err, svg) ==
  LET t == S.tasks[i]
      failed == err # NoErr
      vf1 == IF failed THEN message(S.vFile, err, t.position) ELSE S.vFile
      p1 == IF failed THEN reject(S.promises[i]) ELSE S.promises[i]
      vf2 == info(vf1, t.lang \o " code block replaced with graph", t.position)
      newNode == IF t.asString
                   THEN HtmlNode(svg)
                   ELSE ImageNode(MERMAID_IMAGE_TITLE, svg)
  IN [S EXCEPT !.vFile = vf2,
               !.ast = splice(@, i, newNode),
               !.promises[i] = resolve(p1),
               !.tasks[i] = Idle]

\* Fault seeded in codeVisitor: resolve() is called when the render is
\* started instead of in its callback.
codeVisitorResolvingEarly(S, i) ==
  LET node == S.ast[i]
      destinationDir == getDestinationDir(S.vFile)
      asString == S.vFile.data.asString
  IN IF node.lang # "mermaid"
       THEN [S EXCEPT !.promises[i] = "resolved"]
     ELSE IF simpleMode
       THEN [S EXCEPT
               !.vFile = info(@, node.lang \o " code block replaced with div",
                              node.position),
               !.ast = splice(@, i, createMermaidDiv(node.value)),
               !.promises[i] = "resolved"]
     ELSE IF mmdcExecutable = NotFound
       THEN [S EXCEPT !.promises[i] = "rejected"]
     ELSE [S EXCEPT !.promises[i] = "resolved",
                    !.tasks[i] = renderTask(node, destinationDir, asString)]

\* The visitor of visitCodeBlock, the promise executor included.
codeVisitor(S, i) ==
  LET node == S.ast[i]
      destinationDir == getDestinationDir(S.vFile)
      asString == S.vFile.data.asString
  IN IF node.lang # "mermaid"
       THEN [S EXCEPT !.promises[i] = "resolved"]
     ELSE IF simpleMode
       THEN [S EXCEPT
               !.vFile = info(@, node.lang \o " code block replaced with div",
                              node.position),
               !.ast = splice(@, i, createMermaidDiv(node.value)),
               !.promises[i] = "resolved"]
     ELSE IF mmdcExecutable = NotFound
       \* which.sync throws inside the executor: the promise is rejected
       THEN [S EXCEPT !.promises[i] = "rejected"]
     ELSE [S EXCEPT !.promises[i] = "pending",
                    !.tasks[i] = renderTask(node, destinationDir, asString)]


\* Fault seeded in urlCallback: the node is replaced by a new image node, as
\* a code block is, instead of having its url rewritten.
urlCallbackReplacing(S, i, err, fileURL) ==
  LET t == S.tasks[i]
      failed == err # NoErr
      vf1 == IF failed THEN message(S.vFile, err, t.position) ELSE S.vFile
      p1 == IF failed THEN reject(S.promises[i]) ELSE S.promises[i]
  IN [S EXCEPT !.vFile = info(vf1, "mermaid link replaced with link to graph",
                              t.position),
               !.ast = splice(@, i, ImageNode(MERMAID_IMAGE_TITLE, fileURL)),
               !.promises[i] = resolve(p1),
               !.tasks[i] = Idle]

\* The callback replaceUrlWithGraph hands to renderFromFile.
urlCallback(S, i, err, fileURL) ==
  LET t == S.tasks[i]
      failed == err # NoErr
      vf1 == IF failed THEN message(S.vFile, err, t.position) ELSE S.vFile
      p1 == IF failed THEN reject(S.promises[i]) ELSE S.promises[i]
  IN [S EXCEPT !.vFile = info(vf1, "mermaid link replaced with link to graph",
                              t.position),
               !.ast[i].url = fileURL,
               !.promises[i] = resolve(p1),
               !.tasks[i] = Idle]

replaceUrlWithGraph(S, i) ==
  LET node == S.ast[i]
      destinationDir == S.vFile.data.destinationDir
      inputFile == S.vFile.dirname \o "/" \o node.url
  IN IF ~isMermaid(node.title)
       THEN [S EXCEPT !.promises[i] = "resolved"]
     ELSE IF mmdcExecutable = NotFound \/ destinationDir = Undefined
       \* which.sync, or path.join on undefined, throws inside the executor
       THEN [S EXCEPT !.promises[i] = "rejected"]
     ELSE [S EXCEPT
             !.promises[i] = "pending",
             !.tasks[i] = renderFromFileTask(node, inputFile, destinationDir),
             !.execCalls = @ \cup {inputFile}]

replaceLinkWithEmbedded(S, i) ==
  LET node == S.ast[i]
      file == S.vFile.dirname \o "/" \o node.url
  IN IF ~isMermaid(node.title)
       THEN S
     ELSE IF file \in DOMAIN fs
       THEN [S EXCEPT
               !.ast = splice(@, i, createMermaidDiv(fs[file])),
               !.vFile = info(@, "mermaid link replaced with div",
                              node.position)]
     ELSE [S EXCEPT !.vFile = message(@, "ENOENT: " \o file, node.position)]

\* The callback of the utils tests: (err, rendered) => { expect(rendered)... }
testCallback(S, i, err, rendered) ==
  [S EXCEPT !.received = Append(@, [call |-> i, err |-> err,
                                    value |-> rendered]),
            !.tasks[i] = Idle]

\* callback(err, value): the function the render call was given.
callback(S, i, err, value) ==
  CASE S.tasks[i].callback = "codeCallback" -> codeCallback(S, i, err, value)
    [] S.tasks[i].callback = "urlCallback" -> urlCallback(S, i, err, value)
    [] S.tasks[i].callback = "testCallback" -> testCallback(S, i, err, value)

\* The visitor function handed to visit, by name.
callVisitor(visitor, S, i) ==
  CASE visitor = "codeVisitor" -> codeVisitor(S, i)
    [] visitor = "replaceLinkWithEmbedded" -> replaceLinkWithEmbedded(S, i)
    [] visitor = "replaceUrlWithGraph" -> replaceUrlWithGraph(S, i)

\* unist-util-visit: the visitor on every node of the given type, in
\* document order, each seeing what the earlier calls did to the tree.
visit(S, type, visitor) ==
  LET f[k \in 0..Len(S.ast)] ==
        IF k = 0 THEN S
        ELSE IF f[k - 1].ast[k].type = type
          THEN callVisitor(visitor, f[k - 1], k)
          ELSE f[k - 1]
  IN f[Len(S.ast)]

visitCodeBlock(S) == visit(newPromises(S), "code", "codeVisitor")

visitUrl(S, type) ==
  LET S0 == newPromises(S)
      S1 == IF simpleMode THEN visit(S0, type, "replaceLinkWithEmbedded") ELSE S0
  IN visit(S1, type, "replaceUrlWithGraph")

visitLink(S) == visitUrl(S, "link")

visitImage(S) == visitUrl(S, "image")

\* Fault seeded in allResolved: Promise.race in the place of Promise.all.
raceResolved == \E i \in DOMAIN promises : promises[i] \in {"none", "resolved"}

\* Promise.all(promises) is fulfilled / is rejected.
allResolved == \A i \in DOMAIN promises : promises[i] \in {"none", "resolved"}
anyRejected == \E i \in DOMAIN promises : promises[i] = "rejected"

----------------------------------------------------------------------------
(* Initial states: a parsed document, the plugin options, the vFile and    *)
(* the machine the plugin runs on.                                         *)

Init ==
  /\ doc \in Documents
  /\ ast = doc
  /\ simpleMode \in BOOLEAN
  /\ vFile \in {[dirname |-> "/doc",
                 data |-> [destinationDir |-> d, asString |-> a],
                 messages |-> <<>>] :
                  d \in {"/out", Undefined}, a \in BOOLEAN}
  /\ mmdcExecutable \in {"/bin/mmdc", NotFound}
  /\ fs = ("/doc/diagram.mmd" :> "graph TD; A-->B;")
  /\ tasks = [i \in 1..MaxNodes |-> Idle]
  /\ promises = [i \in 1..MaxNodes |-> "none"]
  /\ phase = "idle"
  /\ result = "pending"
  /\ execCalls = {}
  /\ received = <<>>

----------------------------------------------------------------------------
(* The transformer and its `.then` chain                                   *)

transformer ==
  /\ phase = "idle"
  /\ Commit(visitCodeBlock(Cur))
  /\ phase' = "visitCodeBlock"
  /\ UNCHANGED <<doc, simpleMode, mmdcExecutable, fs, result>>

thenVisitLink ==
  /\ phase = "visitCodeBlock" /\ result = "pending" /\ allResolved
  /\ Commit(visitLink(Cur))
  /\ phase' = "visitLink"
  /\ UNCHANGED <<doc, simpleMode, mmdcExecutable, fs, result>>

thenVisitImage ==
  /\ phase = "visitLink" /\ result = "pending" /\ allResolved
  /\ Commit(visitImage(Cur))
  /\ phase' = "visitImage"
  /\ UNCHANGED <<doc, simpleMode, mmdcExecutable, fs, result>>

\* Fault seeded in the chain: the last handler starts visitImage without
\* returning its promise, so the tree is handed back without waiting.
thenReturnAstNotWaiting ==
  /\ phase = "visitImage" /\ result = "pending"
  /\ result' = "resolved"
  /\ UNCHANGED <<doc, ast, simpleMode, vFile, mmdcExecutable, fs, tasks,
                 promises, phase, execCalls, received>>

thenReturnAst ==
  /\ phase = "visitImage" /\ result = "pending" /\ allResolved
  /\ result' = "resolved"
  /\ UNCHANGED <<doc, ast, simpleMode, vFile, mmdcExecutable, fs, tasks,
                 promises, phase, execCalls, received>>

\* Fault seeded in the rejection of the chain: the operations still in
\* flight are abandoned when Promise.all rejects.
rejectedCancelling ==
  /\ phase \in {"visitCodeBlock", "visitLink", "visitImage"}
  /\ result = "pending" /\ anyRejected
  /\ result' = "rejected"
  /\ tasks' = [i \in 1..MaxNodes |-> Idle]
  /\ UNCHANGED <<doc, ast, simpleMode, vFile, mmdcExecutable, fs,
                 promises, phase, execCalls, received>>

rejected ==
  /\ phase \in {"visitCodeBlock", "visitLink", "visitImage"}
  /\ result = "pending" /\ anyRejected
  /\ result' = "rejected"
  /\ UNCHANGED <<doc, ast, simpleMode, vFile, mmdcExecutable, fs, tasks,
                 promises, phase, execCalls, received>>

----------------------------------------------------------------------------
(* render: the series write -> mmdc -> remove, then the optional read-back *)

outputFileDone(i) ==
  /\ tasks[i].pc = "outputFile"
  /\ fs' = (tasks[i].input :> tasks[i].source) @@ fs
  /\ tasks' = [tasks EXCEPT ![i].pc = "exec"]
  /\ execCalls' = execCalls \cup {tasks[i].input}
  /\ UNCHANGED <<doc, ast, simpleMode, vFile, mmdcExecutable, promises, phase,
                 result, received>>

outputFileFailed(i) ==
  /\ tasks[i].pc = "outputFile"
  /\ Commit(callback(Cur, i, "outputFile failed", Undefined))
  /\ UNCHANGED <<doc, simpleMode, mmdcExecutable, fs, phase, result>>

execDone(i) ==
  /\ tasks[i].pc = "exec"
  /\ tasks[i].input \in DOMAIN fs
  /\ fs' = (tasks[i].svgPath :> Svg(fs[tasks[i].input])) @@ fs
  /\ tasks' = [tasks EXCEPT ![i].pc = "remove"]
  /\ UNCHANGED <<doc, ast, simpleMode, vFile, mmdcExecutable, promises, phase,
                 result, execCalls, received>>

\* The error exec hands to its callback when mmdc exits with a failure; its
\* message carries what mmdc printed, which tells a missing input file from
\* every other failure.
commandFailed(input) ==
  IF input \in DOMAIN fs
    THEN "Command failed: mmdc"
    ELSE "Command failed: mmdc: input file does not exist"

\* Fault seeded in render: the temporary file is cleaned up when mmdc failed.
execFailedCleaningUp(i) ==
  /\ tasks[i].pc = "exec"
  /\ fs' = [p \in DOMAIN fs \ {tasks[i].input} |-> fs[p]]
  /\ Commit(callback(Cur, i, commandFailed(tasks[i].input), Undefined))
  /\ UNCHANGED <<doc, simpleMode, mmdcExecutable, phase, result>>

execFailed(i) ==
  /\ tasks[i].pc = "exec"
  /\ Commit(callback(Cur, i, commandFailed(tasks[i].input), Undefined))
  /\ UNCHANGED <<doc, simpleMode, mmdcExecutable, fs, phase, result>>

removeDone(i) ==
  /\ tasks[i].pc = "remove"
  /\ fs' = [p \in DOMAIN fs \ {tasks[i].input} |-> fs[p]]
  /\ IF tasks[i].asString
       THEN /\ tasks' = [tasks EXCEPT ![i].pc = "readFile"]
            /\ UNCHANGED <<ast, vFile, promises, execCalls, received>>
       ELSE Commit(callback(Cur, i, NoErr, "./" \o tasks[i].svgFilename))
  /\ UNCHANGED <<doc, simpleMode, mmdcExecutable, phase, result>>

removeFailed(i) ==
  /\ tasks[i].pc = "remove"
  /\ Commit(callback(Cur, i, "remove failed", Undefined))
  /\ UNCHANGED <<doc, simpleMode, mmdcExecutable, fs, phase, result>>

readFileDone(i) ==
  /\ tasks[i].pc = "readFile"
  /\ tasks[i].svgPath \in DOMAIN fs
  /\ Commit(callback(Cur, i, NoErr, fs[tasks[i].svgPath]))
  /\ UNCHANGED <<doc, simpleMode, mmdcExecutable, fs, phase, result>>

readFileFailed(i) ==
  /\ tasks[i].pc = "readFile"
  /\ Commit(callback(Cur, i, "readFile failed", Undefined))
  /\ UNCHANGED <<doc, simpleMode, mmdcExecutable, fs, phase, result>>

(* renderFromFile: one mmdc run on the given file                          *)

renderFromFileDone(i) ==
  /\ tasks[i].pc = "renderFromFile"
  /\ tasks[i].input \in DOMAIN fs
  /\ fs' = (tasks[i].svgPath :> Svg(fs[tasks[i].input])) @@ fs
  /\ Commit(callback(Cur, i, NoErr, "./" \o tasks[i].svgFilename))
  /\ UNCHANGED <<doc, simpleMode, mmdcExecutable, phase, result>>

renderFromFileFailed(i) ==
  /\ tasks[i].pc = "renderFromFile"
  /\ Commit(callback(Cur, i, commandFailed(tasks[i].input), Undefined))
  /\ UNCHANGED <<doc, simpleMode, mmdcExecutable, fs, phase, result>>

Next ==
  \/ transformer
  \/ thenVisitLink
  \/ thenVisitImage
  \/ thenReturnAst
  \/ rejected
  \/ \E i \in 1..MaxNodes : outputFileDone(i)
  \/ \E i \in 1..MaxNodes : outputFileFailed(i)
  \/ \E i \in 1..MaxNodes : execDone(i)
  \/ \E i \in 1..MaxNodes : execFailed(i)
  \/ \E i \in 1..MaxNodes : removeDone(i)
  \/ \E i \in 1..MaxNodes : removeFailed(i)
  \/ \E i \in 1..MaxNodes : readFileDone(i)
  \/ \E i \in 1..MaxNodes : readFileFailed(i)
  \/ \E i \in 1..MaxNodes : renderFromFileDone(i)
  \/ \E i \in 1..MaxNodes : renderFromFileFailed(i)

Spec == Init /\ [][Next]_vars

-----------------------------------------------------------------------------
(* The utils called directly, as test/utils.test.js calls them             *)

\* runtimeDir of the tests, and a second directory to render into.
Destinations == {"/runtime", "/out"}

\* fixturesDir/example.mmd of the tests, and a file that does not exist.
InputFiles == {"/doc/diagram.mmd", "/doc/missing.mmd"}

\* render's parameter asString after `if (arguments.length === 3) callback =
\* asString`: in the three-argument form the parameter holds the callback,
\* and a function is truthy where the final callback tests `if (asString)`.
\* JavaScript's truthiness is modelled by the Boolean TRUE.
argumentsAsString(argumentsLength, asString) ==
  IF argumentsLength = 3 THEN TRUE ELSE asString

\* Whether direct call number i has been made.
called(i) ==
  \/ tasks[i] # Idle
  \/ \E k \in 1..Len(received) : received[k].call = i

InitUtils ==
  /\ doc = <<>>
  /\ ast = <<>>
  /\ simpleMode = FALSE
  /\ vFile = [dirname |-> "/doc",
              data |-> [destinationDir |-> Undefined, asString |-> FALSE],
              messages |-> <<>>]
  /\ mmdcExecutable \in {"/bin/mmdc", NotFound}
  /\ fs = ("/doc/diagram.mmd" :> "graph TD; A-->B;")
  /\ tasks = [i \in 1..MaxNodes |-> Idle]
  /\ promises = [i \in 1..MaxNodes |-> "none"]
  /\ phase = "utils"
  /\ result = "pending"
  /\ execCalls = {}
  /\ received = <<>>

\* render(source, destination, asString, callback) and
\* render(source, destination, callback)
render(i, source, destination, argumentsLength, asString) ==
  /\ ~called(i)
  /\ IF mmdcExecutable = NotFound
       \* which.sync throws: the caller gets the exception, nothing started
       THEN /\ received' = Append(received, [call |-> i, err |-> NotFound,
                                             value |-> Undefined])
            /\ UNCHANGED tasks
       ELSE /\ tasks' = [tasks EXCEPT ![i] =
                   [renderTask(CodeNode(Undefined, source, 0), destination,
                               argumentsAsString(argumentsLength, asString))
                      EXCEPT !.callback = "testCallback",
                             !.argumentsLength = argumentsLength]]
            /\ UNCHANGED received
  /\ UNCHANGED <<doc, ast, simpleMode, vFile, mmdcExecutable, fs, promises,
                 phase, result, execCalls>>

\* renderFromFile(inputFile, destination, callback)
renderFromFile(i, inputFile, destination) ==
  /\ ~called(i)
  /\ IF mmdcExecutable = NotFound
       THEN /\ received' = Append(received, [call |-> i, err |-> NotFound,
                                             value |-> Undefined])
            /\ UNCHANGED <<tasks, execCalls>>
       ELSE /\ tasks' = [tasks EXCEPT ![i] =
                   [renderFromFileTask(UrlNode("link", Undefined, Undefined, 0),
                                       inputFile, destination)
                      EXCEPT !.callback = "testCallback"]]
            /\ execCalls' = execCalls \cup {inputFile}
            /\ UNCHANGED received
  /\ UNCHANGED <<doc, ast, simpleMode, vFile, mmdcExecutable, fs, promises,
                 phase, result>>

NextUtils ==
  \/ \E i \in 1..MaxNodes, source \in Sources, destination \in Destinations :
        render(i, source, destination, 3, FALSE)
  \/ \E i \in 1..MaxNodes, source \in Sources, destination \in Destinations,
        asString \in BOOLEAN : render(i, source, destination, 4, asString)
  \/ \E i \in 1..MaxNodes, inputFile \in InputFiles,
        destination \in Destinations : renderFromFile(i, inputFile, destination)
  \/ \E i \in 1..MaxNodes : outputFileDone(i)
  \/ \E i \in 1..MaxNodes : outputFileFailed(i)
  \/ \E i \in 1..MaxNodes : execDone(i)
  \/ \E i \in 1..MaxNodes : execFailed(i)
  \/ \E i \in 1..MaxNodes : removeDone(i)
  \/ \E i \in 1..MaxNodes : removeFailed(i)
  \/ \E i \in 1..MaxNodes : readFileDone(i)
  \/ \E i \in 1..MaxNodes : readFileFailed(i)
  \/ \E i \in 1..MaxNodes : renderFromFileDone(i)
  \/ \E i \in 1..MaxNodes : renderFromFileFailed(i)

SpecUtils == InitUtils /\ [][NextUtils]_vars

----------------------------------------------------------------------------
(* Vocabulary of the properties                                            *)

NodeIds == 1..MaxNodes

\* The node's discriminating field matches exactly.
Matched(n) ==
  \/ n.type = "code" /\ n.lang = "mermaid"
  \/ n.type \in {"link", "image"} /\ n.title = "mermaid:"

KindNo(type) ==
  CASE type = "code" -> 1 [] type = "link" -> 2 [] type = "image" -> 3
    [] OTHER -> 0

PhaseNo ==
  CASE phase = "visitCodeBlock" -> 1 [] phase = "visitLink" -> 2
    [] phase = "visitImage" -> 3 [] OTHER -> 0

\* An asynchronous operation is in flight for node i.
Running(i) == tasks[i].pc # "idle"

\* Every unit of work of phase k has settled.
PhaseFinished(k) ==
  \/ PhaseNo > k
  \/ PhaseNo = k /\ \A i \in NodeIds : promises[i] # "pending"

\* The unit of work of node i (of the kind of phase k) was fulfilled.
Fulfilled(i) ==
  LET k == KindNo(doc[i].type) IN
  \/ PhaseNo > k
  \/ PhaseNo = k /\ promises[i] = "resolved"

MessagesAt(p) == SelectSeq(vFile.messages, LAMBDA m : m.position = p)
ErrorsAt(p) == SelectSeq(MessagesAt(p), LAMBDA m : m.fatal = "false")
InfosAt(p) == SelectSeq(MessagesAt(p), LAMBDA m : m.fatal = "null")

RenderErrors ==
  {"outputFile failed", "Command failed: mmdc",
   "Command failed: mmdc: input file does not exist", "remove failed",
   "readFile failed"}

\* mmdc is on the search path and the vFile names a destination directory.
Equipped ==
  mmdcExecutable # NotFound /\ vFile.data.destinationDir # Undefined

InfoMessage(reason, position) ==
  [fatal |-> "null", reason |-> reason, position |-> position,
   source |-> PLUGIN_NAME]

----------------------------------------------------------------------------
\* C1: a failed render operation (the renderer exits with failure, or a
\* file-system step fails) is turned into a diagnostic and does not reach
\* past the phase: the promise the transformer returned is not rejected.
C1_FailureStaysInPhase ==
  (\E k \in 1..Len(vFile.messages) :
      /\ vFile.messages[k].fatal = "false"
      /\ vFile.messages[k].reason \in RenderErrors)
    => result # "rejected"

\* C2: once a phase has finished, each of its matched nodes is either
\* replaced with no error diagnostic, or unchanged with exactly one error
\* diagnostic and no success diagnostic (stated for runs in which mmdc is
\* found and the destination directory is set).
C2_ReplacedOrOneError ==
  \A i \in NodeIds :
    (Equipped /\ Matched(doc[i]) /\ PhaseFinished(KindNo(doc[i].type)))
      => \/ ast[i] # doc[i] /\ Len(ErrorsAt(i)) = 0
         \/ ast[i] = doc[i] /\ Len(ErrorsAt(i)) = 1 /\ Len(InfosAt(i)) = 0

\* C3: the phases are strictly sequential: every operation in flight belongs
\* to the phase the transformer is in, so no link operation starts while a
\* code-block operation is unsettled, and no image operation while a link
\* operation is unsettled.
C3_PhasesSequential ==
  \A i \in NodeIds : Running(i) => KindNo(doc[i].type) = PhaseNo

\* A link operation is in flight after the render of a code block of the same
\* document has run and settled.
C3_Witness ==
  /\ ~simpleMode /\ phase = "visitLink"
  /\ \E i, j \in NodeIds :
       /\ Running(i) /\ doc[i].type = "link"
       /\ doc[j].type = "code" /\ Matched(doc[j]) /\ ast[j] # doc[j]

\* C4: every diagnostic of a code block precedes, in the list of messages,
\* every diagnostic of a link or image.
C4_CodeDiagnosticsFirst ==
  \A k, l \in 1..Len(vFile.messages) :
    LET a == vFile.messages[k].position
        b == vFile.messages[l].position
    IN (doc[a].type = "code" /\ doc[b].type \in {"link", "image"}) => k < l

\* The list holds a diagnostic of a code block and one of a link or image.
C4_Witness ==
  \E k, l \in 1..Len(vFile.messages) :
    /\ doc[vFile.messages[k].position].type = "code"
    /\ doc[vFile.messages[l].position].type \in {"link", "image"}
    /\ ~simpleMode

Appended ==
  SubSeq(vFile.messages', Len(vFile.messages) + 1, Len(vFile.messages'))

DiagramText(n) ==
  IF n.type = "code" THEN n.value
  ELSE IF ("/doc/" \o n.url) \in DOMAIN fs THEN fs["/doc/" \o n.url]
  ELSE Undefined

\* C6: in simple mode no renderer is ever invoked, and after its phase every
\* matched node is an html node holding the container and the diagram text
\* (stated for runs in which mmdc is found and the destination directory is
\* set).
C6_EmbedOnly ==
  (simpleMode /\ Equipped) =>
    /\ execCalls = {}
    /\ \A i \in NodeIds :
         (Matched(doc[i]) /\ PhaseFinished(KindNo(doc[i].type)))
           => /\ ast[i].type = "html"
              /\ DiagramText(doc[i]) # Undefined
                   => ast[i].value = "<div class=\"mermaid\">\n  "
                                       \o DiagramText(doc[i]) \o "\n</div>"

\* C7: a node whose discriminating field does not match is never changed,
\* gets no diagnostic and no operation, in both modes; a document with no
\* matching node leaves tree, messages and file system alone and runs no
\* renderer.
C7_NonMatchingUntouched ==
  /\ \A i \in NodeIds :
       ~Matched(doc[i])
         => /\ ast[i] = doc[i]
            /\ MessagesAt(i) = <<>>
            /\ tasks[i] = Idle
            /\ promises[i] \in {"none", "resolved"}
  /\ (\A i \in NodeIds : ~Matched(doc[i]))
       => /\ ast = doc
          /\ vFile.messages = <<>>
          /\ execCalls = {}
          /\ DOMAIN fs = {"/doc/diagram.mmd"}

\* The transformer has returned a tree in which a matched node was replaced
\* next to a link or image whose title differs from the marker only in case.
C7_Witness ==
  /\ result = "resolved"
  /\ \E i, j \in NodeIds :
       /\ doc[i].title = "Mermaid:" /\ ast[i] = doc[i]
       /\ Matched(doc[j]) /\ ast[j] # doc[j]

\* C8: in default mode a matched code block whose render succeeded is
\* replaced at its own index: by an html node carrying the rendered text when
\* the vFile asks for a string, else by an image node with the fixed title
\* and the url ./<id>.svg; its one diagnostic is the info "<lang> code block
\* replaced with graph".
C8_CodeBlockReplaced ==
  \A i \in NodeIds :
    (~simpleMode /\ doc[i].type = "code" /\ Matched(doc[i]) /\ Fulfilled(i))
      => /\ ast[i] =
              IF vFile.data.asString
                THEN HtmlNode("<svg>" \o doc[i].value \o "</svg>")
                ELSE ImageNode(MERMAID_IMAGE_TITLE,
                               "./sha1<remark-mermaid>(" \o doc[i].value
                                 \o ").svg")
         /\ MessagesAt(i) =
              <<InfoMessage("mermaid code block replaced with graph", i)>>

\* A code block rendered to a string, and one rendered to a file.
C8_Witness ==
  /\ ~simpleMode /\ vFile.data.asString
  /\ \E i \in NodeIds :
       /\ doc[i].type = "code" /\ Matched(doc[i]) /\ Fulfilled(i)
       /\ ast[i].type = "html"

\* C9: in default mode a matched link or image whose renderFromFile succeeded
\* stays where it is with its kind and title; only its url becomes the
\* relative path of the generated file, and its one diagnostic is the info
\* "mermaid link replaced with link to graph".
C9_UrlRewritten ==
  \A i \in NodeIds :
    (~simpleMode /\ doc[i].type \in {"link", "image"} /\ Matched(doc[i])
       /\ Fulfilled(i))
      => /\ ast[i] =
              [doc[i] EXCEPT
                 !.url = "./sha1<remark-mermaid>(/doc/" \o doc[i].url
                           \o ").svg"]
         /\ MessagesAt(i) =
              <<InfoMessage("mermaid link replaced with link to graph", i)>>

\* An image whose graph was generated.
C9_Witness ==
  /\ ~simpleMode
  /\ \E i \in NodeIds :
       /\ doc[i].type = "image" /\ Matched(doc[i]) /\ Fulfilled(i)
       /\ ast[i].url # doc[i].url

\* C10: in the step in which a render operation completes with success, its
\* temporary input file is gone and its output file exists, whatever the
\* other operations of the phase are doing.
C10_TempFileRemoved ==
  [][\A i \in NodeIds :
       (/\ tasks[i].pc \in {"remove", "readFile"}
        /\ tasks'[i].pc = "idle"
        /\ promises[i] = "pending" /\ promises'[i] = "resolved")
         => /\ tasks[i].input \notin DOMAIN fs'
            /\ tasks[i].svgPath \in DOMAIN fs']_vars

-----------------------------------------------------------------------------
(* Properties of the utils called directly                                 *)

\* The record the callback of direct call i was given by this step, if any.
Answered(i) ==
  /\ Len(received') = Len(received) + 1
  /\ received'[Len(received')].call = i
  /\ tasks[i] # Idle

\* C11: render called with three arguments (source, destination, callback)
\* renders to a file: on success its callback is given the relative path
\* './<id>.svg' of the generated file, not the text of the file.
C11_ThreeArgumentsRenderToFile ==
  [][\A i \in 1..MaxNodes :
       (/\ Answered(i)
        /\ tasks[i].source # Undefined
        /\ tasks[i].argumentsLength = 3
        /\ received'[Len(received')].err = NoErr)
       => received'[Len(received')].value = "./" \o tasks[i].svgFilename]_vars

-----------------------------------------------------------------------------
\* A render of a source text is in flight as direct call i.
Rendering(i) == Running(i) /\ tasks[i].source # Undefined

\* C14: the name of the file render produces is a function of the source
\* text alone: two renders of the same text, into the same or different
\* directories and with or without asString, name the same file, and renders
\* of different texts name different files.
C14_FilenameFromSourceAlone ==
  \A i, j \in 1..MaxNodes :
    (Rendering(i) /\ Rendering(j))
      => (tasks[i].svgFilename = tasks[j].svgFilename
            <=> tasks[i].source = tasks[j].source)

\* Two renders of one text are in flight, into different directories and in
\* different output modes.
C14_Witness ==
  \E i, j \in 1..MaxNodes :
    /\ Rendering(i) /\ Rendering(j)
    /\ tasks[i].source = tasks[j].source
    /\ tasks[i].svgPath # tasks[j].svgPath
    /\ tasks[i].asString /\ ~tasks[j].asString
    /\ tasks[i].svgFilename = tasks[j].svgFilename

-----------------------------------------------------------------------------
(* Properties of the plugin, continued                                     *)

\* The directory the vFile resolves to: data.destinationDir when set, the
\* directory of the document otherwise.
ResolvedDir ==
  IF vFile.data.destinationDir # Undefined
    THEN vFile.data.destinationDir ELSE vFile.dirname

\* C12: for every matched node of every kind, the destination directory
\* handed to render / renderFromFile is the explicit output directory when
\* one is set and the document's own directory otherwise, and resolving it
\* cannot fail: when a phase visits its nodes in default mode with mmdc on
\* the search path, every matched node of the phase's kind gets a render
\* started whose output path lies in that directory.
C12_DestinationResolved ==
  [][\A i \in NodeIds :
       (/\ phase' # phase
        /\ ~simpleMode
        /\ mmdcExecutable # NotFound
        /\ Matched(doc[i])
        /\ KindNo(doc[i].type) = PhaseNo')
       => /\ Running(i)'
          /\ tasks'[i].svgPath = ResolvedDir \o "/" \o tasks'[i].svgFilename]_vars

\* C13: when mmdc cannot be found on the search path the failure is fatal and
\* is raised before any work on a node: at the moment the transformation
\* aborts no node has been replaced, no diagnostic has been recorded and no
\* file has been written, in default mode and in simple mode.
C13_NotFoundBeforeAnyWork ==
  (mmdcExecutable = NotFound /\ result = "rejected")
    => /\ ast = doc
       /\ vFile.messages = <<>>
       /\ DOMAIN fs = {"/doc/diagram.mmd"}

\* C15: in simple mode, when the file a matched link or image names cannot
\* be read, exactly one error diagnostic is recorded for the node, the node
\* is left unchanged and nothing more is done for it: mmdc is not run on the
\* file and no further diagnostic is recorded for the node.
C15_UnreadableLeftAlone ==
  \A i \in NodeIds :
    (/\ simpleMode
     /\ doc[i].type \in {"link", "image"}
     /\ Matched(doc[i])
     /\ (vFile.dirname \o "/" \o doc[i].url) \notin DOMAIN fs
     /\ PhaseNo >= KindNo(doc[i].type))
    => /\ Len(MessagesAt(i)) = 1
       /\ Len(ErrorsAt(i)) = 1
       /\ ast[i] = doc[i]
       /\ ~Running(i)
       /\ (vFile.dirname \o "/" \o doc[i].url) \notin execCalls

\* The next step of the operation in flight for node i.
StepOf(i) ==
  \/ outputFileDone(i) \/ outputFileFailed(i)
  \/ execDone(i) \/ execFailed(i)
  \/ removeDone(i) \/ removeFailed(i)
  \/ readFileDone(i) \/ readFileFailed(i)
  \/ renderFromFileDone(i) \/ renderFromFileFailed(i)

\* C16: there is no cancellation. An operation in flight can always take
\* its next step, whatever has happened to its siblings and to the chain; no
\* step of anything else touches it; and it ends only through its own
\* callback, which records its diagnostic and, when the operation succeeded,
\* replaces its node.
C16_NoCancellation ==
  [][\A i \in NodeIds :
       Running(i) =>
         /\ ENABLED StepOf(i)
         /\ Running(i)' =>
              \/ tasks'[i] = tasks[i]
              \/ tasks'[i] = [tasks[i] EXCEPT !.pc = tasks'[i].pc]
         /\ ~Running(i)' =>
              /\ promises[i] = "pending"
              /\ promises'[i] \in {"resolved", "rejected"}
              /\ Len(MessagesAt(i))' > Len(MessagesAt(i))
              /\ promises'[i] = "resolved" =>
                   /\ ast'[i] # ast[i]
                   /\ vFile'.messages[Len(vFile'.messages)].position = i
                   /\ vFile'.messages[Len(vFile'.messages)].fatal = "null"]_vars

\* The chain has been rejected by the failure of one operation, and a
\* sibling that was in flight completed afterwards and replaced its node.
C16_Witness ==
  /\ ~simpleMode
  /\ result = "rejected"
  /\ \E a, b \in 1..Len(vFile.messages) :
       /\ a < b
       /\ vFile.messages[a].fatal = "false"
       /\ vFile.messages[b].fatal = "null"
       /\ vFile.messages[a].position # vFile.messages[b].position
       /\ promises[vFile.messages[b].position] = "resolved"
       /\ ast[vFile.messages[b].position] # doc[vFile.messages[b].position]

\* The temporary file render writes for node i.
MmdPath(i) ==
  ResolvedDir \o "/" \o createHmac(PLUGIN_NAME, doc[i].value) \o ".mmd"

\* C17: within one render of a source text the steps run strictly in the
\* order write the temporary file, run mmdc, remove the temporary file and,
\* only with asString, read the output back; a failure of a step reports an
\* error to the caller and no later step of the operation runs, so after a
\* failed run of mmdc the temporary file is not removed.
C17_StepsInOrder ==
  [][\A i \in NodeIds :
       (tasks[i].source # Undefined /\ tasks'[i] # tasks[i]) =>
         LET pc == tasks[i].pc
             next == tasks'[i].pc
             last == IF tasks[i].asString THEN "readFile" ELSE "remove"
             failed == promises'[i] = "rejected"
         IN /\ pc = "outputFile" => next \in {"exec", "idle"}
            /\ pc = "exec" => next \in {"remove", "idle"}
            /\ pc = "remove" => next \in {"readFile", "idle"}
            /\ pc = "readFile" => next = "idle"
            /\ next = "readFile" => tasks[i].asString
            /\ next = "exec" => tasks[i].input \in DOMAIN fs'
            /\ next = "remove" => tasks[i].svgPath \in DOMAIN fs'
            /\ (next = "idle" /\ pc # last) => failed
            /\ (next = "idle" /\ failed) =>
                 /\ fs' = fs
                 /\ execCalls' = execCalls
                 /\ Len(ErrorsAt(i))' = Len(ErrorsAt(i)) + 1]_vars

\* mmdc failed on the temporary file of a code block: the error is recorded
\* and the temporary file is still there, with no output beside it.
C17_Witness ==
  \E i \in NodeIds :
    /\ doc[i].type = "code" /\ Matched(doc[i])
    /\ promises[i] = "rejected" /\ ~Running(i)
    /\ Len(ErrorsAt(i)) = 1
    /\ ErrorsAt(i)[1].reason = "Command failed: mmdc"
    /\ MmdPath(i) \in DOMAIN fs

\* No step failed on account of the environment: the only errors recorded
\* are runs of mmdc that found their input file missing.
NoEnvironmentFailure ==
  \A k \in 1..Len(vFile.messages) :
    vFile.messages[k].fatal = "false"
      => vFile.messages[k].reason
           = "Command failed: mmdc: input file does not exist"

\* C18: every replacement substitutes exactly one child at the index of the
\* matched node: the number of children never changes, every node that does
\* not match stays what and where it was, and the final tree does not depend
\* on the order in which the concurrent operations completed; so, the order
\* in which every render succeeds being one of them, once the code blocks
\* have been processed in default mode without a failure of the environment
\* every matched code block is replaced by its graph.
C18_OneChildOrderFree ==
  /\ Len(ast) = Len(doc)
  /\ \A i \in NodeIds : ~Matched(doc[i]) => ast[i] = doc[i]
  /\ (~simpleMode /\ Equipped /\ NoEnvironmentFailure /\ PhaseFinished(1))
       => \A i \in NodeIds :
            (doc[i].type = "code" /\ Matched(doc[i]))
              => ast[i] =
                   IF vFile.data.asString
                     THEN HtmlNode("<svg>" \o doc[i].value \o "</svg>")
                     ELSE ImageNode(MERMAID_IMAGE_TITLE,
                                    "./sha1<remark-mermaid>(" \o doc[i].value
                                      \o ").svg")

\* C19: when the promise of the transformer is fulfilled, with the tree it
\* was given, every operation of the three phases has completed: all three
\* phases have been run, no operation is in flight or pending, and no step
\* that would change the tree or the diagnostics can follow.
C19_ResolvedIsFinal ==
  result = "resolved"
    => /\ phase = "visitImage"
       /\ Len(ast) = Len(doc)
       /\ \A i \in NodeIds : ~Running(i) /\ promises[i] # "pending"
       /\ ~ENABLED (Next /\ (ast' # ast \/ vFile' # vFile))

\* The transformer's promise is fulfilled after an image, the kind of the
\* last phase, was rendered and had its url rewritten.
C19_Witness ==
  /\ result = "resolved"
  /\ ~simpleMode
  /\ \E i \in NodeIds :
       /\ doc[i].type = "image" /\ Matched(doc[i])
       /\ ast[i].url # doc[i].url
       /\ Len(InfosAt(i)) = 1

=============================================================================
